---------------------------- MODULE Spec2Model ----------------------------
(***************************************************************************)
(* The engagement bot of src/engagement.py: the tweets cache, the ledger   *)
(* of processed interactions (in memory and in processed_interactions.json)*)
(* and the threads that start_scheduler creates (the initial               *)
(* run_engagement_cycle thread, one thread per reply tick and per repost   *)
(* tick, and the scheduler's own thread, which runs the daily cleanup).    *)
(* Time is counted in minutes.                                             *)
(***************************************************************************)
EXTENDS Integers, Sequences, FiniteSets, TLC

VARIABLES
    processed_interactions, \* self.processed_interactions: the two in-memory sets
    file,                   \* PROCESSED_FILE on disk
    tweets_cache,           \* self.tweets_cache: data and timestamp
    now,                    \* datetime.now(), in minutes
    th,                     \* per thread: position and local variables
    lastFetchAt,            \* history: start time of the last returned call that fetched
    cleared,                \* history: clear_tweets_cache returned, no call since
    cyc,                    \* history, per thread: what its invocation has done so far
    blacklist_keywords,     \* ENGAGEMENT_CONFIG["blacklist_keywords"]
    probe,                  \* the last call of a function looked at alone, and its
                            \* answer; history: the calls of tweet() so far
    daily,                  \* run.py: its globals, tweet_handler's and tweet()'s position
    outfit                  \* outfit_scheduler.py: generation_status, the runs, the
                            \* latest answer; history: a request carried force

vars == <<processed_interactions, file, tweets_cache, now, th,
          lastFetchAt, cleared, cyc, blacklist_keywords, probe, daily, outfit>>

\* Python's None and a present value
None == <<>>
Some(x) == <<x>>
Val(o) == o[1]

----------------------------------------------------------------------------
(* Bounds of the model *)

MaxThreads == 2     \* worker threads alive at once (thread 0 is the scheduler)
MaxTime == 2        \* the clock stops here
MaxPosts == 2       \* posts in one get_users_tweets answer
MaxResults == 2     \* candidates in one search_recent_tweets answer
SeqThreads == 1     \* worker threads in the specification SpecSeq
SeqPosts == 1       \* posts and candidates in SpecSeq and SpecHappy
SeqResults == 2
MaxEnvLen == 3      \* characters of BLACKLIST_KEYWORDS
MaxTextLen == 2     \* characters of a probed text
MaxId == 120            \* the largest id of a ledger that is saved and loaded alone
MaxReplyLen == 3        \* the longest completion handed back to the generators
MaxSlots == 2           \* generation runs accepted or running at a time
MaxTotalRuns == 3       \* generation runs started in all

\* ENGAGEMENT_CONFIG's quotas (5 and 3) and time to live (15), scaled down
max_replies_per_check == 2
max_repost_comments_per_check == 1
tweets_cache_minutes == 1

(* Configuration (ENGAGEMENT_CONFIG) and literals of the code *)

engagement_start_hour == 8
engagement_end_hour == 22
weekend_reduced_activity == TRUE
RecentHours == 24
TrimMax == 1000
TrimKeep == 500
bot_user_id == "bot"       \* self.client.get_me().data.id
other_user_id == "other"

Workers == 1..MaxThreads
SeqWorkers == 1..SeqThreads
Threads == 0..MaxThreads
Kinds == {"replied_to", "commented_reposts"}

Min(a, b) == IF a <= b THEN a ELSE b

SeqsUpTo(S, n) == UNION {[1..k -> S] : k \in 0..n}

----------------------------------------------------------------------------
(* Blacklist: parse_blacklist_keywords and contains_blacklisted_keywords *)

Chars == {"s", "S", "p", ",", " "}

LowerChar(c) == CASE c = "S" -> "s" [] c = "P" -> "p" [] OTHER -> c

Lower(s) == [i \in 1..Len(s) |-> LowerChar(s[i])]

RECURSIVE Split(_, _)
Split(s, sep) ==
    IF \A i \in 1..Len(s) : s[i] # sep
    THEN <<s>>
    ELSE LET i == CHOOSE j \in 1..Len(s) :
                      s[j] = sep /\ \A k \in 1..(j - 1) : s[k] # sep
         IN  <<SubSeq(s, 1, i - 1)>> \o Split(SubSeq(s, i + 1, Len(s)), sep)

RECURSIVE Strip(_)
Strip(s) ==
    IF s = <<>> THEN s
    ELSE IF Head(s) = " " THEN Strip(Tail(s))
    ELSE IF s[Len(s)] = " " THEN Strip(SubSeq(s, 1, Len(s) - 1))
    ELSE s

parse_blacklist_keywords(env) ==
    LET parts == Split(env, ",")
    IN  [i \in 1..Len(parts) |-> Strip(parts[i])]

\* Python's `k in t` on strings
Infix(k, t) ==
    \E i \in 0..(Len(t) - Len(k)) : SubSeq(t, i + 1, i + Len(k)) = k

contains_blacklisted_keywords(keywords, text) ==
    LET text_lower == Lower(text)
    IN  \E i \in 1..Len(keywords) : Infix(keywords[i], text_lower)

\* the default of BLACKLIST_KEYWORDS, all lower case, cut down to one keyword
DefaultKeywordsEnv == <<"s", "p">>

----------------------------------------------------------------------------
(* The outside world: posts of the account, candidates found by search *)

Post(i, c, conv) == [id |-> i, created_at |-> c, conversation_id |-> conv]

\* the account's posts, newest first; the second leaves the 24 h window
\* one minute after the start
Timeline ==
    <<Post(101, 0, 101), Post(102, 1 - RecentHours * 60, 101),
      Post(103, 0 - RecentHours * 60, 103)>>

\* what get_users_tweets may answer: the newest n posts, n <= max
PostLists(max) == {SubSeq(Timeline, 1, n) : n \in 0..Min(max, Len(Timeline))}

Cand(i, a, t) == [id |-> i, author_id |-> a, text |-> t]

CandPool ==
    { Cand(1, other_user_id, <<"p">>),
      Cand(2, other_user_id, <<"p", "s">>),
      Cand(3, bot_user_id, <<"p">>),
      Cand(4, other_user_id, <<"S", "p">>) }

\* the static replies and comments random.choice picks from
Fallbacks == {<<"t">>, <<"g">>}

\* generate_reply_message: the completion's content stripped, or a fallback
\* when the key is missing or anything raised (completion None)
generate_reply_message(completion, pick) ==
    IF completion = None THEN pick ELSE Strip(Val(completion))

\* generate_repost_comment: the same, a missing key raising inside the try
generate_repost_comment(completion, pick) ==
    IF completion = None THEN pick ELSE Strip(Val(completion))

generate(task, completion, pick) ==
    IF task = "replies" THEN generate_reply_message(completion, pick)
    ELSE generate_repost_comment(completion, pick)

\* what the completion may be: none, empty, blank, a text
CompletionSamples == {None, Some(<<>>), Some(<<" ">>), Some(<<"a">>)}

GeneratedTexts(task) ==
    {generate(task, c, f) : c \in CompletionSamples, f \in Fallbacks}

----------------------------------------------------------------------------
(* A ledger set.  The ids the model follows are kept one by one; ids that  *)
(* only fill the set (loaded from the file at start) are counted in `old`. *)

LSet(ids, old) == [ids |-> ids, old |-> old]

In(id, S) == id \in S.ids

\* a list instead of a set: a repeated id is one more entry
AddAgain(S, id) ==
    IF id \in S.ids THEN [S EXCEPT !.old = @ + 1]
    ELSE [S EXCEPT !.ids = @ \cup {id}]

Add(S, id) == [S EXCEPT !.ids = @ \cup {id}]

Size(S) == Cardinality(S.ids) + S.old

\* the slice forgotten: the whole list
SlicesAll(S, keep) == {S}

\* list(S)[-keep:]: the order of a Python set's list is not the order of
\* insertion, so any `keep` elements may be the last ones
Slices(S, keep) ==
    {LSet(K, keep - Cardinality(K)) :
        K \in {J \in SUBSET S.ids :
                  Cardinality(J) <= keep /\ keep - Cardinality(J) <= S.old}}

EmptyLedger == [replied_to |-> LSet({}, 0), commented_reposts |-> LSet({}, 0)]

----------------------------------------------------------------------------
(* JSON, as far as json.dump and json.load meet it here.  A value is a     *)
(* record of its type and its parts: the digits of a number, the items of  *)
(* an array (`more`: further numbers that the model does not follow one by *)
(* one), the characters of a string, the keys of an object.                *)

JV(type, seq, more) == [type |-> type, seq |-> seq, more |-> more]

JNull == JV("null", <<>>, 0)
JAbsent == JV("absent", <<>>, 0)      \* a key the object does not have

\* the decimal numeral of a natural number, and back
RECURSIVE Digits(_)
Digits(n) == IF n < 10 THEN <<n>> ELSE Digits(n \div 10) \o <<n % 10>>

\* a parser that keeps the last digit only
NumberLastDigit(ds) == ds[Len(ds)]

RECURSIVE Number(_)
Number(ds) ==
    IF Len(ds) = 1 THEN ds[1]
    ELSE 10 * Number(SubSeq(ds, 1, Len(ds) - 1)) + ds[Len(ds)]

JNumber(n) == JV("number", Digits(n), 0)

\* list(S): the ids of a set in some order
ListsOf(ids) ==
    {l \in [1..Cardinality(ids) -> ids] : \A i, j \in DOMAIN l : i # j => l[i] # l[j]}

RECURSIVE Ascending(_)
Ascending(ids) ==
    IF ids = {} THEN <<>>
    ELSE LET m == CHOOSE x \in ids : \A y \in ids : x <= y
         IN  <<m>> \o Ascending(ids \ {m})

\* json.dump of {"replied_to": list(...), "commented_reposts": list(...)}
json_dump(p, replied, commented) ==
    JV("object",
       << JV("array", [i \in DOMAIN replied |-> JNumber(replied[i])],
             p.replied_to.old),
          JV("array", [i \in DOMAIN commented |-> JNumber(commented[i])],
             p.commented_reposts.old) >>,
       0)

\* set(data.get(key, [])): the set, or None where set() raises TypeError
SetFromJson(v) ==
    CASE v.type = "absent" -> Some(LSet({}, 0))
      [] v.type = "array" ->
            IF \E i \in DOMAIN v.seq : v.seq[i].type \in {"array", "object"}
            THEN None                                       \* unhashable item
            ELSE Some(LSet({Number(v.seq[i].seq) : i \in DOMAIN v.seq}, v.more))
      [] v.type \in {"string", "object"} ->
            Some(LSet({v.seq[i] : i \in DOMAIN v.seq}, 0))  \* characters, keys
      [] OTHER -> None                                      \* number, null

----------------------------------------------------------------------------
(* The ledger file: load_processed_interactions, save_processed_interactions *)

MissingFile == [status |-> "missing", content |-> JNull]
UnreadableFile == [status |-> "unreadable", content |-> JNull]  \* open raises
CorruptFile == [status |-> "corrupt", content |-> JNull]        \* not JSON

\* the file a successful save leaves; the order of list(set) is any (see
\* ListsOf), and no reader depends on it
FileWith(p, replied, commented) ==
    [status |-> "ok", content |-> json_dump(p, replied, commented)]

FileOf(p) ==
    FileWith(p, Ascending(p.replied_to.ids), Ascending(p.commented_reposts.ids))

load_processed_interactions(f) ==
    IF f.status # "ok" \/ f.content.type # "object" THEN EmptyLedger
    ELSE LET r == SetFromJson(f.content.seq[1])
             c == SetFromJson(f.content.seq[2])
         IN  IF r = None \/ c = None THEN EmptyLedger
             ELSE [replied_to |-> Val(r), commented_reposts |-> Val(c)]

\* the file after save_processed_interactions, by what the write did
save_processed_interactions(f, p, outcome) ==
    CASE outcome = "ok" -> FileOf(p)
      [] outcome = "open_failed" -> f
      [] outcome = "write_failed" -> CorruptFile

SaveOutcomes == {"ok", "open_failed", "write_failed"}

InitFiles ==
    { MissingFile,
      FileOf([replied_to |-> LSet({1}, 0),
              commented_reposts |-> LSet({}, 0)]) }

----------------------------------------------------------------------------
(* is_engagement_time *)

\* a window that never closes in the evening
is_engagement_time_no_end(hour, weekday, low_draw) ==
    IF ~(engagement_start_hour <= hour)
    THEN FALSE
    ELSE IF weekend_reduced_activity /\ weekday >= 5 /\ low_draw
    THEN FALSE
    ELSE TRUE

is_engagement_time(hour, weekday, low_draw) ==
    IF ~(engagement_start_hour <= hour /\ hour <= engagement_end_hour)
    THEN FALSE
    ELSE IF weekend_reduced_activity /\ weekday >= 5 /\ low_draw
    THEN FALSE
    ELSE TRUE

HourSamples == {7, 8, 22, 23}
WeekdaySamples == {4, 5}

----------------------------------------------------------------------------
(* The tweets cache: is_cache_valid and the filter of get_recent_bot_tweets *)

\* a snapshot that never expires
CacheNeverExpires(c, t) == c.data # None /\ c.timestamp # None

is_cache_valid(c, t) ==
    IF c.data = None \/ c.timestamp = None
    THEN FALSE
    ELSE (t - Val(c.timestamp)) < c.cache_duration_minutes

RecentOf(data, current_time, hours) ==
    SelectSeq(data, LAMBDA tw : tw.created_at >= current_time - hours * 60)

----------------------------------------------------------------------------
(* Threads *)

SetOf(task) == IF task = "replies" THEN "replied_to" ELSE "commented_reposts"

MaxOf(task) ==
    IF task = "replies" THEN max_replies_per_check
    ELSE max_repost_comments_per_check

\* a thread that is not running, and the locals of a fresh invocation
Idle ==
    [pc |-> "idle", task |-> "none", cycle |-> FALSE, current_time |-> 0,
     fetched |-> <<>>, recent |-> 0, results |-> 0, cand |-> None,
     response |-> None, count |-> 0, keep |-> None]

Begin(task, cycle, count) ==
    [Idle EXCEPT !.pc = "start", !.task = task, !.cycle = cycle, !.count = count]

\* a candidate survives the three checks of the inner loop
Eligible(c, ledger, task) ==
    /\ ~In(c.id, ledger[SetOf(task)])
    /\ c.author_id # bot_user_id
    /\ ~contains_blacklisted_keywords(blacklist_keywords, c.text)

\* where a thread goes when process_replies / process_reposts returns:
\* run_engagement_cycle goes on to the reposts, then draws the 10% cleanup;
\* a tick thread ends
ProcessEnd(r, cleanup_draw) ==
    IF ~r.cycle THEN Idle
    ELSE IF r.task = "replies" THEN Begin("reposts", TRUE, r.count)
    ELSE IF cleanup_draw
    THEN [Idle EXCEPT !.pc = "cleanup_replied_to", !.task = "cleanup"]
    ELSE Idle

\* a counter that is not reset
InitialCountKept(old) == old

\* reply_count = 0 / comment_count = 0
InitialCount(old) == 0

\* the body of the for-tweet loop begins, with n recent tweets
EnterLoop(r, n) ==
    [r EXCEPT !.pc = "loop", !.recent = n, !.count = InitialCount(r.count),
              !.current_time = 0, !.fetched = <<>>]

\* the comparison off by one
QuotaReachedLate(count, max) == count > max

\* `if count >= max: break`
QuotaReached(count, max) == count >= max

\* the thread after one candidate is dealt with: the break out of both
\* loops, or the next candidate of this search, or the next tweet
AfterCandidate(r) ==
    IF QuotaReached(r.count, MaxOf(r.task))
    THEN [r EXCEPT !.pc = "save", !.results = 0, !.recent = 0, !.cand = None]
    ELSE [r EXCEPT !.pc = IF r.results = 1 THEN "loop" ELSE "filter",
                   !.results = r.results - 1, !.cand = None]

----------------------------------------------------------------------------
(* process_replies / process_reposts *)

\* is_engagement_time at the given hour and weekday with the given weekend
\* draw, then the start of get_recent_bot_tweets
StartAt(w, hour, weekday, low) ==
    /\ th[w].pc = "start"
    /\ \E draw \in BOOLEAN :
          th' = [th EXCEPT ![w] =
                    IF ~is_engagement_time(hour, weekday, low)
                    THEN ProcessEnd(th[w], draw)
                    ELSE IF is_cache_valid(tweets_cache, now)
                    THEN EnterLoop(th[w],
                             Len(RecentOf(Val(tweets_cache.data), now, RecentHours)))
                    ELSE [th[w] EXCEPT !.pc = "fetch", !.current_time = now]]
    /\ UNCHANGED <<processed_interactions, file, tweets_cache>>

Start(w) ==
    \E hour \in HourSamples, weekday \in WeekdaySamples, low \in BOOLEAN :
       StartAt(w, hour, weekday, low)

\* client.get_users_tweets, its answer, and the except branch
Fetch(w, max_posts) ==
    /\ th[w].pc = "fetch"
    /\ \/ \E data \in PostLists(max_posts) :
            th' = [th EXCEPT ![w] =
                      IF data = <<>>
                      THEN [th[w] EXCEPT !.pc = "no_data"]
                      ELSE [th[w] EXCEPT !.pc = "cache_data", !.fetched = data]]
       \/ \E draw \in BOOLEAN :
            th' = [th EXCEPT ![w] =
                      IF tweets_cache.data = None
                      THEN EnterLoop(th[w], 0)
                      ELSE IF tweets_cache.timestamp = None
                      THEN ProcessEnd(th[w], draw)   \* TypeError, caught by the caller
                      ELSE EnterLoop(th[w],
                               Len(RecentOf(Val(tweets_cache.data),
                                            th[w].current_time, RecentHours)))]
    /\ UNCHANGED <<processed_interactions, file, tweets_cache>>

\* `if not tweets.data: return []`
NoData(w) ==
    /\ th[w].pc = "no_data"
    /\ th' = [th EXCEPT ![w] = EnterLoop(th[w], 0)]
    /\ UNCHANGED <<processed_interactions, file, tweets_cache>>

\* self.tweets_cache["data"] = tweets.data
CacheData(w) ==
    /\ th[w].pc = "cache_data"
    /\ tweets_cache' = [tweets_cache EXCEPT !.data = Some(th[w].fetched)]
    /\ th' = [th EXCEPT ![w].pc = "cache_ts"]
    /\ UNCHANGED <<processed_interactions, file>>

\* self.tweets_cache["timestamp"] = current_time, and the filter
CacheTs(w) ==
    /\ th[w].pc = "cache_ts"
    /\ tweets_cache' = [tweets_cache EXCEPT !.timestamp = Some(th[w].current_time)]
    /\ th' = [th EXCEPT ![w] =
                 EnterLoop(th[w],
                     Len(RecentOf(th[w].fetched, th[w].current_time, RecentHours)))]
    /\ UNCHANGED <<processed_interactions, file>>

\* the head of the for-tweet loop and client.search_recent_tweets, which
\* answers n candidates (n = 0: no data, or the search raised)
Loop(w, max_results) ==
    /\ th[w].pc = "loop"
    /\ \/ /\ th[w].recent = 0 \/ QuotaReached(th[w].count, MaxOf(th[w].task))
          /\ th' = [th EXCEPT ![w].pc = "save", ![w].recent = 0]
       \/ /\ th[w].recent > 0 /\ ~QuotaReached(th[w].count, MaxOf(th[w].task))
          /\ \E n \in 0..max_results :
                th' = [th EXCEPT ![w].recent = th[w].recent - 1,
                                 ![w].results = n,
                                 ![w].pc = IF n = 0 THEN "loop" ELSE "filter"]
    /\ UNCHANGED <<processed_interactions, file, tweets_cache>>

\* the three checks on the next candidate of the search
Filter(w) ==
    /\ th[w].pc = "filter"
    /\ \E c \in CandPool :
          th' = [th EXCEPT ![w] =
                    IF Eligible(c, processed_interactions, th[w].task)
                    THEN [th[w] EXCEPT !.pc = "publish", !.cand = Some(c)]
                    ELSE [th[w] EXCEPT !.results = th[w].results - 1,
                                       !.pc = IF th[w].results = 1
                                              THEN "loop" ELSE "filter"]]
    /\ UNCHANGED <<processed_interactions, file, tweets_cache>>

\* a failure that falls through to the bookkeeping
PublishFailedRecords(r) == [r EXCEPT !.pc = "record"]

\* a failure that ends the invocation
PublishFailedAborts(r) ==
    [r EXCEPT !.pc = "save", !.results = 0, !.recent = 0, !.cand = None]

\* a failure that is counted as an answer
PublishFailedCounts(r) == AfterCandidate([r EXCEPT !.count = @ + 1])

\* the thread after create_tweet raised: the except branch
PublishFailed(r) == AfterCandidate(r)

\* generate_reply_message / generate_repost_comment, then client.create_tweet
\* (`oks`: whether the platform may accept, refuse, or both)
Publish(w, oks) ==
    /\ th[w].pc = "publish"
    /\ \E text \in GeneratedTexts(th[w].task), ok \in oks :
          th' = [th EXCEPT ![w] =
                    IF ok /\ text # <<>>
                    THEN [th[w] EXCEPT !.pc = "record",
                             !.response =
                                 Some([in_reply_to_tweet_id |-> Val(th[w].cand).id])]
                    ELSE PublishFailed(th[w])]
    /\ UNCHANGED <<processed_interactions, file, tweets_cache>>

\* processed_interactions[...].add(id); count += 1; the sleep; the break
Record(w) ==
    /\ th[w].pc = "record"
    /\ LET set == SetOf(th[w].task)
           id == Val(th[w].cand).id
           r == [th[w] EXCEPT !.count = @ + 1, !.response = None]
       IN  /\ processed_interactions' =
                  [processed_interactions EXCEPT ![set] = Add(@, id)]
           /\ th' = [th EXCEPT ![w] = AfterCandidate(r)]
    /\ UNCHANGED <<file, tweets_cache>>

\* a save that takes the ledger back from the file it wrote
SaveReloads(w, outcomes) ==
    /\ th[w].pc = "save"
    /\ \E outcome \in outcomes, draw \in BOOLEAN :
          /\ file' = save_processed_interactions(file, processed_interactions, outcome)
          /\ th' = [th EXCEPT ![w] = ProcessEnd(th[w], draw)]
    /\ processed_interactions' = load_processed_interactions(file')
    /\ UNCHANGED tweets_cache

\* save_processed_interactions at the end of the invocation
Save(w, outcomes) ==
    /\ th[w].pc = "save"
    /\ \E outcome \in outcomes, draw \in BOOLEAN :
          /\ file' = save_processed_interactions(file, processed_interactions, outcome)
          /\ th' = [th EXCEPT ![w] = ProcessEnd(th[w], draw)]
    /\ UNCHANGED <<processed_interactions, tweets_cache>>

----------------------------------------------------------------------------
(* cleanup_old_interactions, by the cycle's thread or by thread 0 (02:00) *)

CleanupEnd(p) == IF p = 0 THEN [Idle EXCEPT !.pc = "sched"] ELSE Idle

\* `if len(set) > 1000: recent = list(set)[-500:]`
CleanupCheck(p, set, next) ==
    /\ th[p].pc = "cleanup_" \o set
    /\ IF Size(processed_interactions[set]) > TrimMax
       THEN \E keep \in Slices(processed_interactions[set], TrimKeep) :
               th' = [th EXCEPT ![p].pc = "trim_" \o set, ![p].keep = Some(keep)]
       ELSE th' = [th EXCEPT ![p].pc = next]
    /\ UNCHANGED <<processed_interactions, file, tweets_cache>>

\* `self.processed_interactions[set] = set(recent)`
CleanupTrim(p, set, next) ==
    /\ th[p].pc = "trim_" \o set
    /\ processed_interactions' =
           [processed_interactions EXCEPT ![set] = Val(th[p].keep)]
    /\ th' = [th EXCEPT ![p].pc = next, ![p].keep = None]
    /\ UNCHANGED <<file, tweets_cache>>

CleanupSave(p, outcomes) ==
    /\ th[p].pc = "cleanup_save"
    /\ \E outcome \in outcomes :
          file' = save_processed_interactions(file, processed_interactions, outcome)
    /\ th' = [th EXCEPT ![p] = CleanupEnd(p)]
    /\ UNCHANGED <<processed_interactions, tweets_cache>>

----------------------------------------------------------------------------
(* start_scheduler: the scheduler's thread (0) *)

FreeSlots(W) == {w \in W : th[w].pc = "idle"}

\* a due job: threading.Thread(target=process_replies / process_reposts).start()
SchedulerTick(W, task) ==
    /\ th[0].pc = "sched"
    /\ FreeSlots(W) # {}
    /\ LET w == CHOOSE v \in FreeSlots(W) : \A u \in FreeSlots(W) : v <= u
       IN  th' = [th EXCEPT ![w] = Begin(task, FALSE, 0)]
    /\ UNCHANGED <<processed_interactions, file, tweets_cache>>

\* schedule.every().day.at("02:00").do(self.cleanup_old_interactions)
DailyCleanup ==
    /\ th[0].pc = "sched"
    /\ th' = [th EXCEPT ![0].pc = "cleanup_replied_to", ![0].task = "cleanup"]
    /\ UNCHANGED <<processed_interactions, file, tweets_cache>>

\* clear_tweets_cache, called in the scheduler's thread: its two stores
ClearData ==
    /\ th[0].pc = "sched"
    /\ tweets_cache' = [tweets_cache EXCEPT !.data = None]
    /\ th' = [th EXCEPT ![0].pc = "clear_ts"]
    /\ UNCHANGED <<processed_interactions, file>>

ClearTs ==
    /\ th[0].pc = "clear_ts"
    /\ tweets_cache' = [tweets_cache EXCEPT !.timestamp = None]
    /\ th' = [th EXCEPT ![0].pc = "sched"]
    /\ UNCHANGED <<processed_interactions, file>>

ClockTick ==
    /\ now < MaxTime
    /\ now' = now + 1
    /\ UNCHANGED <<processed_interactions, file, tweets_cache, th>>

----------------------------------------------------------------------------
(* History variables, updated beside the program's steps *)

\* lastFetchAt: the start time of the most recent get_recent_bot_tweets
\* call that called get_users_tweets and has returned; None again as soon
\* as any thread stores a snapshot
Returned(w) ==
    /\ th[w].pc \in {"fetch", "no_data", "cache_ts"}
    /\ th'[w].pc \notin {"fetch", "no_data", "cache_data", "cache_ts"}

History ==
    lastFetchAt' =
        IF \E w \in Workers : Returned(w)
        THEN Some(th[CHOOSE w \in Workers : Returned(w)].current_time)
        ELSE IF \E w \in Workers : th[w].pc = "cache_data" /\ th'[w].pc = "cache_ts"
        THEN None
        ELSE lastFetchAt

\* cleared: clear_tweets_cache has returned and no get_recent_bot_tweets
\* call has begun since
CallBegins(w) == th[w].pc = "start" /\ th'[w].pc \in {"fetch", "loop"}

ClearHistory ==
    cleared' =
        IF th[0].pc = "clear_ts" /\ th'[0].pc = "sched" THEN TRUE
        ELSE IF \E w \in Workers : CallBegins(w) THEN FALSE
        ELSE cleared

\* cyc[w]: the ids thread w's invocation has acted upon; once it broke out
\* of the loops, how many more ids of the search it was working on would
\* have passed the checks; how many create_tweet calls failed; how many
\* searches gave nothing (no data, or an exception); the ids create_tweet was
\* called for in the searches before this one, and in this one; how many
\* create_tweet calls succeeded; for a thread in cleanup that has sliced a
\* set and not yet replaced it, the ids added to that set since the slice
NoCycle ==
    [acted |-> {}, skipped |-> 0, failed |-> 0, nohits |-> 0,
     tried |-> {}, trying |-> {}, won |-> 0, during |-> {}]

EligibleIds(rest, ledger, task) ==
    {rest[i].id : i \in {j \in 1..Len(rest) : Eligible(rest[j], ledger, task)}}

CycleAfter(w, rest) ==
    IF th'[w] = th[w] THEN cyc[w]
    ELSE IF th'[w].pc \in {"start", "idle"} \/ th'[w].task = "cleanup" THEN NoCycle
    ELSE IF th[w].pc = "record"
    THEN [cyc[w] EXCEPT
             !.acted = @ \cup {Val(th[w].cand).id},
             !.skipped = IF th'[w].pc = "save"
                         THEN Cardinality(EligibleIds(rest, processed_interactions',
                                                      th[w].task))
                         ELSE 0]
    ELSE IF th[w].pc = "publish"
    THEN [cyc[w] EXCEPT
             !.failed = IF th'[w].pc = "record" THEN @ ELSE @ + 1,
             !.won = IF th'[w].pc = "record" THEN @ + 1 ELSE @,
             !.trying = @ \cup {Val(th[w].cand).id}]
    ELSE IF th[w].pc = "loop"
    THEN [cyc[w] EXCEPT
             !.nohits = IF th'[w].pc = "loop" THEN @ + 1 ELSE @,
             !.tried = @ \cup cyc[w].trying,
             !.trying = {}]
    ELSE cyc[w]

CycleHistory ==
    \E w \in Workers :
       /\ \A u \in Workers \ {w} : th'[u] = th[u]
       /\ \E rest \in [1..(IF th[w].pc = "record" /\ th'[w].pc = "save"
                           THEN th[w].results - 1 ELSE 0) -> CandPool] :
             cyc' = [cyc EXCEPT ![w] = CycleAfter(w, rest)]

BetweenSliceAndStore(p, set) ==
    th[p].pc = "trim_" \o set /\ th'[p].pc = th[p].pc

TrimHistory ==
    cyc' = [p \in Threads |->
               IF \E set \in Kinds : BetweenSliceAndStore(p, set)
               THEN LET set == CHOOSE k \in Kinds : BetweenSliceAndStore(p, k)
                    IN  [cyc[p] EXCEPT
                            !.during = @ \cup (processed_interactions'[set].ids
                                                \ processed_interactions[set].ids)]
               ELSE [cyc[p] EXCEPT !.during = {}]]

----------------------------------------------------------------------------
(* run.py: tweet_handler and tweet() *)

MaxTries == 3

\* the module's globals, tweet_handler at the head of its loop
DailyStart ==
    [pc |-> "check", tries |-> 0, tweet_status |-> FALSE, api_status |-> FALSE,
     image_status |-> FALSE, media_url |-> "none", media_uploaded |-> FALSE]

\* tweet() returns: its locals are gone, tweet_handler is at `while True`
Returns(d) == [d EXCEPT !.pc = "check", !.media_url = "none", !.media_uploaded = FALSE]

\* a test that lets a fourth attempt through
GaveUpLate(d) == d.tries > MaxTries /\ ~d.tweet_status

\* `if tries >= 3 and not tweet_status`
GaveUp(d) == d.tries >= MaxTries /\ ~d.tweet_status

\* the head of the loop: give up, or sleep an hour first, or go on
HandlerCheck ==
    /\ daily.pc = "check"
    /\ daily' = [daily EXCEPT !.pc = IF GaveUp(daily) THEN "gave_up"
                                     ELSE IF daily.tries > 0 /\ ~daily.tweet_status
                                     THEN "sleep" ELSE "branch"]

\* time.sleep(3600)
HandlerSleep ==
    /\ daily.pc = "sleep"
    /\ daily' = [daily EXCEPT !.pc = "branch"]

\* `if tweet_status: break`, else the call of tweet() up to `tries += 1`
HandlerBranch ==
    /\ daily.pc = "branch"
    /\ daily' = IF daily.tweet_status
                THEN [daily EXCEPT !.pc = "done"]
                ELSE [daily EXCEPT !.pc = "parse", !.tries = @ + 1]

MediaKinds == {"none", "image", "video", "page"}

\* tweet_parser and `if not api_status: return`: the API or the scrape
\* answers, or neither does and None comes back, or something raises
TweetParse ==
    /\ daily.pc = "parse"
    /\ \/ \E m \in MediaKinds :
             daily' = [daily EXCEPT !.pc = "media", !.api_status = TRUE,
                                    !.media_url = m]
       \/ daily' = Returns(daily)

\* the download and the upload of the media
TweetMedia ==
    /\ daily.pc = "media"
    /\ IF daily.media_url = "none"
       THEN daily' = [daily EXCEPT !.pc = "create"]
       ELSE \/ daily' = Returns(daily)                 \* status not 200, or raised
            \/ /\ daily.media_url = "image"
               /\ \/ daily' = [daily EXCEPT !.pc = "create", !.image_status = TRUE,
                                             !.media_uploaded = TRUE]
                  \/ daily' = Returns([daily EXCEPT !.image_status = TRUE])
            \/ /\ daily.media_url = "video"
               /\ daily' = [daily EXCEPT !.pc = "create", !.media_uploaded = TRUE]
            \/ /\ daily.media_url = "page"
               /\ \E up \in BOOLEAN :
                     daily' = [daily EXCEPT !.pc = "create", !.media_uploaded = up]

\* client.create_tweet and `tweet_status = True`
TweetCreate ==
    /\ daily.pc = "create"
    /\ \/ daily' = [daily EXCEPT !.pc = "cleanup", !.tweet_status = TRUE]
       \/ daily' = Returns(daily)

\* the removal of the downloaded files, raising or not
TweetCleanup ==
    /\ daily.pc = "cleanup"
    /\ daily' = Returns(daily)

DailyStep ==
    \/ HandlerCheck
    \/ HandlerSleep
    \/ HandlerBranch
    \/ TweetParse
    \/ TweetMedia
    \/ TweetCreate
    \/ TweetCleanup

Calls == IF probe = None THEN 0 ELSE Val(probe)

CallsTweet == daily.pc = "branch" /\ daily'.pc = "parse"

DailyHistory == probe' = IF CallsTweet THEN Some(Calls + 1) ELSE probe

NextDaily ==
    /\ DailyStep
    /\ DailyHistory
    /\ UNCHANGED <<processed_interactions, file, tweets_cache, now, th,
                   lastFetchAt, cleared, cyc, blacklist_keywords, outfit>>

----------------------------------------------------------------------------
(* outfit_scheduler.py: the scheduled job, POST /generate, the runs.       *)
(* Coroutines of one event loop: a step goes from one await to the next.   *)

RunSlots == 1..MaxSlots

FreeRun == [pc |-> "free", kind |-> "none"]

\* generation_status at import (last_run and next_run are left out)
OutfitStart ==
    [is_running |-> FALSE, total_runs |-> 0, successful_runs |-> 0,
     failed_runs |-> 0, current_status |-> "idle",
     run |-> [r \in RunSlots |-> FreeRun],
     answer |-> "none", forced |-> FALSE]

\* a run that leaves is_running as it is when it ends
EndsRunning(o) == o

\* the finally clause
Finally(o) == [o EXCEPT !.is_running = FALSE]

\* the first lines of a run, up to its first await
Begins(o, r, kind) ==
    [o EXCEPT !.is_running = TRUE, !.current_status = "running",
              !.total_runs = @ + 1,
              !.run[r] = [pc |-> "prompts", kind |-> kind]]

\* the end of a run: the branch on `success`, or the except clause, then
\* the finally clause
Finishes(o, r, result) ==
    Finally([o EXCEPT
                !.successful_runs = IF result = "success" THEN @ + 1 ELSE @,
                !.failed_runs = IF result = "success" THEN @ ELSE @ + 1,
                !.current_status = result,
                !.run[r] = FreeRun])

\* the cron trigger fires run_scheduled_generation
ScheduledTick(r) ==
    /\ outfit.run[r].pc = "free"
    /\ outfit.total_runs < MaxTotalRuns
    /\ outfit' = IF outfit.is_running
                 THEN [outfit EXCEPT !.answer = "skipped"]
                 ELSE [Begins(outfit, r, "scheduled") EXCEPT !.answer = "started"]

\* POST /generate: 409, or the background task is added and 200 answered
trigger_generation(r, force) ==
    /\ outfit.run[r].pc = "free"
    /\ outfit.total_runs < MaxTotalRuns
    /\ outfit' = IF outfit.is_running /\ ~force
                 THEN [outfit EXCEPT !.answer = "409"]
                 ELSE [outfit EXCEPT !.answer = "accepted",
                                     !.run[r] = [pc |-> "queued", kind |-> "manual"],
                                     !.forced = @ \/ force]

\* the background task starts: run_manual_generation up to its first await
ManualStart(r) ==
    /\ outfit.run[r].pc = "queued"
    /\ outfit' = Begins(outfit, r, "manual")

\* await generate_refined_prompts: it returns or raises
RunPrompts(r) ==
    /\ outfit.run[r].pc = "prompts"
    /\ \/ outfit' = [outfit EXCEPT !.run[r].pc = "images"]
       \/ outfit' = Finishes(outfit, r, "error")

\* await generate_outfit_images: outfits, or none, or it raises
RunImages(r) ==
    /\ outfit.run[r].pc = "images"
    /\ \/ outfit' = [outfit EXCEPT !.run[r].pc = "post"]
       \/ outfit' = Finishes(outfit, r, "error")

\* await post_outfits_to_twitter: True, False, or it raises
RunPost(r) ==
    /\ outfit.run[r].pc = "post"
    /\ \E result \in {"success", "failed", "error"} :
          outfit' = Finishes(outfit, r, result)

NextOutfit ==
    /\ \/ \E r \in RunSlots : ScheduledTick(r)
       \/ \E r \in RunSlots, force \in BOOLEAN : trigger_generation(r, force)
       \/ \E r \in RunSlots : ManualStart(r)
       \/ \E r \in RunSlots : RunPrompts(r)
       \/ \E r \in RunSlots : RunImages(r)
       \/ \E r \in RunSlots : RunPost(r)
    /\ UNCHANGED <<processed_interactions, file, tweets_cache, now, th,
                   lastFetchAt, cleared, cyc, blacklist_keywords, probe, daily>>

----------------------------------------------------------------------------
(* __init__ and the whole program *)

Init ==
    /\ file \in InitFiles
    /\ processed_interactions = load_processed_interactions(file)
    /\ tweets_cache = [data |-> None, timestamp |-> None,
                       cache_duration_minutes |-> tweets_cache_minutes]
    /\ now = 0
    /\ th = [p \in Threads |->
                IF p = 0 THEN [Idle EXCEPT !.pc = "sched"]
                ELSE IF p = 1 THEN Begin("replies", TRUE, 0)
                ELSE Idle]
    /\ lastFetchAt = None
    /\ cleared = FALSE
    /\ cyc = [p \in Threads |-> NoCycle]
    /\ blacklist_keywords = parse_blacklist_keywords(DefaultKeywordsEnv)
    /\ probe = None
    /\ daily = DailyStart
    /\ outfit = OutfitStart

\* the steps of the threads E.workers in the environment E: how many posts
\* and candidates the platform answers at most, what a write of the file
\* may do, whether create_tweet may succeed and fail
AfterStart(E) ==
    \/ \E w \in E.workers : Fetch(w, E.max_posts)
    \/ \E w \in E.workers : NoData(w)
    \/ \E w \in E.workers : CacheData(w)
    \/ \E w \in E.workers : CacheTs(w)
    \/ \E w \in E.workers : Loop(w, E.max_results)
    \/ \E w \in E.workers : Filter(w)
    \/ \E w \in E.workers : Publish(w, E.publish)
    \/ \E w \in E.workers : Record(w)
    \/ \E w \in E.workers : Save(w, E.save)
    \/ \E p \in E.workers \cup {0} :
          CleanupCheck(p, "replied_to", "cleanup_commented_reposts")
    \/ \E p \in E.workers \cup {0} :
          CleanupCheck(p, "commented_reposts", "cleanup_save")
    \/ \E p \in E.workers \cup {0} : CleanupSave(p, E.save)
    \/ \E task \in {"replies", "reposts"} : SchedulerTick(E.workers, task)

Step(E) ==
    \/ \E w \in E.workers : Start(w)
    \/ AfterStart(E)

\* the bot within one minute, its threads interleaving freely
Env ==
    [workers |-> Workers, max_posts |-> MaxPosts, max_results |-> MaxResults,
     save |-> {"ok", "open_failed"}, publish |-> BOOLEAN]

Next ==
    /\ Step(Env)
    /\ UNCHANGED <<now, lastFetchAt, cleared, cyc, blacklist_keywords, probe, daily, outfit>>

Spec == Init /\ [][Next]_vars

\* the same with fewer threads and every write of the file succeeding
EnvSeq ==
    [workers |-> SeqWorkers, max_posts |-> SeqPosts, max_results |-> SeqResults,
     save |-> {"ok"}, publish |-> BOOLEAN]

NextSeq ==
    /\ Step(EnvSeq)
    /\ UNCHANGED <<now, lastFetchAt, cleared, cyc, blacklist_keywords, probe, daily, outfit>>

SpecSeq == Init /\ [][NextSeq]_vars

\* the invocations one after the other in the thread of the initial cycle,
\* every create_tweet succeeding (a write of the file may fail), with the
\* history of each invocation
CycleThread == 1

EnvHappy ==
    [workers |-> {CycleThread}, max_posts |-> SeqPosts, max_results |-> SeqResults,
     save |-> {"ok", "open_failed"}, publish |-> {TRUE}]

NextHappy ==
    /\ Step(EnvHappy)
    /\ CycleHistory
    /\ UNCHANGED <<now, lastFetchAt, cleared, blacklist_keywords, probe, daily, outfit>>

SpecHappy == Init /\ [][NextHappy]_vars

\* the invocations one after the other, create_tweet and the searches
\* failing or not, with the history of each invocation
EnvLocal ==
    [workers |-> {CycleThread}, max_posts |-> MaxPosts, max_results |-> MaxResults,
     save |-> {"ok"}, publish |-> BOOLEAN]

NextLocal ==
    /\ Step(EnvLocal)
    /\ CycleHistory
    /\ UNCHANGED <<now, lastFetchAt, cleared, blacklist_keywords, probe, daily, outfit>>

SpecLocal == Init /\ [][NextLocal]_vars

\* the invocations one after the other, any write of the file failing before
\* or after the file is truncated, create_tweet failing or not
EnvSave ==
    [workers |-> {CycleThread}, max_posts |-> SeqPosts, max_results |-> SeqResults,
     save |-> SaveOutcomes, publish |-> BOOLEAN]

NextSave ==
    /\ Step(EnvSave)
    /\ UNCHANGED <<now, lastFetchAt, cleared, cyc, blacklist_keywords, probe, daily, outfit>>

SpecSave == Init /\ [][NextSave]_vars

\* the invocations one after the other, with the clock and the weekend draw
\* of the latest window check
NextWindow ==
    /\ \/ \E hour \in HourSamples, weekday \in WeekdaySamples, low \in BOOLEAN :
             /\ StartAt(CycleThread, hour, weekday, low)
             /\ probe' = Some([hour |-> hour, weekday |-> weekday, low |-> low])
       \/ AfterStart(EnvHappy) /\ UNCHANGED probe
    /\ UNCHANGED <<now, lastFetchAt, cleared, cyc, blacklist_keywords, daily, outfit>>

SpecWindow == Init /\ [][NextWindow]_vars

\* the bot started on a ledger file that is about as large as the trim's
\* threshold: the initial cycle in its thread, with its cleanup or without,
\* and the daily cleanup in the scheduler's thread beside it
TrimFiles ==
    {FileOf([replied_to |-> LSet({}, m), commented_reposts |-> LSet({}, n)]) :
        m \in {TrimMax - 1, TrimMax}, n \in {0, TrimMax + 1}}

InitTrim ==
    /\ file \in TrimFiles
    /\ processed_interactions = load_processed_interactions(file)
    /\ tweets_cache = [data |-> None, timestamp |-> None,
                       cache_duration_minutes |-> tweets_cache_minutes]
    /\ now = 0
    /\ th = [p \in Threads |->
                IF p = 0 THEN [Idle EXCEPT !.pc = "sched"]
                ELSE IF p = CycleThread THEN Begin("replies", TRUE, 0)
                ELSE Idle]
    /\ lastFetchAt = None
    /\ cleared = FALSE
    /\ cyc = [p \in Threads |-> NoCycle]
    /\ blacklist_keywords = parse_blacklist_keywords(DefaultKeywordsEnv)
    /\ probe = None
    /\ daily = DailyStart
    /\ outfit = OutfitStart

EnvTrim ==
    [workers |-> {CycleThread}, max_posts |-> SeqPosts, max_results |-> SeqResults,
     save |-> {"ok"}, publish |-> {TRUE}]

NextTrim ==
    /\ \/ Step(EnvTrim)
       \/ DailyCleanup
       \/ \E p \in {0, CycleThread} :
             CleanupTrim(p, "replied_to", "cleanup_commented_reposts")
       \/ \E p \in {0, CycleThread} :
             CleanupTrim(p, "commented_reposts", "cleanup_save")
    /\ TrimHistory
    /\ UNCHANGED <<now, lastFetchAt, cleared, blacklist_keywords, probe, daily, outfit>>

SpecTrim == InitTrim /\ [][NextTrim]_vars

\* the cache over time: the clock runs and the searches find nothing
StepCache ==
    \/ \E w \in Workers : Start(w)
    \/ \E w \in Workers : Fetch(w, MaxPosts)
    \/ \E w \in Workers : NoData(w)
    \/ \E w \in Workers : CacheData(w)
    \/ \E w \in Workers : CacheTs(w)
    \/ \E w \in Workers : Loop(w, 0)
    \/ \E w \in Workers : Save(w, {"ok"})
    \/ \E task \in {"replies", "reposts"} : SchedulerTick(Workers, task)

NextCache ==
    /\ \/ StepCache /\ UNCHANGED now
       \/ ClockTick
    /\ History
    /\ UNCHANGED <<cleared, cyc, blacklist_keywords, probe, daily, outfit>>

SpecCache == Init /\ [][NextCache]_vars

\* the same with fewer threads and posts
StepCacheSeq ==
    \/ \E w \in SeqWorkers : Start(w)
    \/ \E w \in SeqWorkers : Fetch(w, SeqPosts)
    \/ \E w \in SeqWorkers : NoData(w)
    \/ \E w \in SeqWorkers : CacheData(w)
    \/ \E w \in SeqWorkers : CacheTs(w)
    \/ \E w \in SeqWorkers : Loop(w, 0)
    \/ \E w \in SeqWorkers : Save(w, {"ok"})
    \/ \E task \in {"replies", "reposts"} : SchedulerTick(SeqWorkers, task)

NextCacheSeq ==
    /\ \/ StepCacheSeq /\ UNCHANGED now
       \/ ClockTick
    /\ History
    /\ UNCHANGED <<cleared, cyc, blacklist_keywords, probe, daily, outfit>>

SpecCacheSeq == Init /\ [][NextCacheSeq]_vars

\* the cache with clear_tweets_cache called at any moment
NextClear ==
    /\ \/ (StepCache \/ ClearData \/ ClearTs) /\ UNCHANGED now
       \/ ClockTick
    /\ History
    /\ ClearHistory
    /\ UNCHANGED <<cyc, blacklist_keywords, probe, daily, outfit>>

SpecClear == Init /\ [][NextClear]_vars

\* save_processed_interactions, then load_processed_interactions (the next
\* start of the bot), alone, on every small ledger and every order of the lists
IdSamples == {0, 9, 10, MaxId}

LedgerSamples ==
    {[replied_to |-> LSet(A, m), commented_reposts |-> LSet(B, 0)] :
        A \in SUBSET IdSamples, B \in SUBSET IdSamples, m \in {0, 1}}

InitAlone ==
    /\ tweets_cache = [data |-> None, timestamp |-> None,
                       cache_duration_minutes |-> tweets_cache_minutes]
    /\ now = 0
    /\ th = [p \in Threads |-> Idle]
    /\ lastFetchAt = None
    /\ cleared = FALSE
    /\ cyc = [p \in Threads |-> NoCycle]
    /\ blacklist_keywords = parse_blacklist_keywords(DefaultKeywordsEnv)
    /\ probe = None
    /\ daily = DailyStart
    /\ outfit = OutfitStart

InitRoundTrip ==
    /\ InitAlone
    /\ file = MissingFile
    /\ processed_interactions \in LedgerSamples

SaveAlone ==
    /\ probe = None
    /\ \E replied \in ListsOf(processed_interactions.replied_to.ids),
          commented \in ListsOf(processed_interactions.commented_reposts.ids) :
          file' = FileWith(processed_interactions, replied, commented)
    /\ probe' = Some([saved |-> processed_interactions, loaded |-> FALSE])
    /\ UNCHANGED <<processed_interactions, tweets_cache, now, th,
                   lastFetchAt, cleared, cyc, blacklist_keywords, daily, outfit>>

LoadAlone ==
    /\ probe # None /\ ~Val(probe).loaded
    /\ processed_interactions' = load_processed_interactions(file)
    /\ probe' = Some([Val(probe) EXCEPT !.loaded = TRUE])
    /\ UNCHANGED <<file, tweets_cache, now, th,
                   lastFetchAt, cleared, cyc, blacklist_keywords, daily, outfit>>

NextRoundTrip == SaveAlone \/ LoadAlone

SpecRoundTrip == InitRoundTrip /\ [][NextRoundTrip]_vars

\* load_processed_interactions alone, on every kind of store
FieldShapes ==
    { JAbsent, JNull, JNumber(7),
      JV("array", <<>>, 0),
      JV("array", <<JNumber(1)>>, 0),
      JV("array", <<JV("array", <<>>, 0)>>, 0),
      JV("string", <<"a", "b">>, 0),
      JV("object", <<"k">>, 0) }

FileShapes ==
    {MissingFile, UnreadableFile, CorruptFile}
    \cup {[status |-> "ok", content |-> v] :
             v \in {JNull, JNumber(7), JV("array", <<JNumber(1)>>, 0),
                    JV("string", <<"a">>, 0)}}
    \cup {[status |-> "ok", content |-> JV("object", <<r, c>>, 0)] :
             r \in FieldShapes, c \in FieldShapes}

\* the store save_processed_interactions writes: an object whose two keys,
\* where present, hold arrays of ids
WellFormed(f) ==
    /\ f.status = "ok"
    /\ f.content.type = "object"
    /\ \A k \in 1..2 :
          \/ f.content.seq[k].type = "absent"
          \/ /\ f.content.seq[k].type = "array"
             /\ \A i \in DOMAIN f.content.seq[k].seq :
                   f.content.seq[k].seq[i].type = "number"

InitLoad ==
    /\ InitAlone
    /\ file \in FileShapes
    /\ processed_interactions = EmptyLedger

LoadAtStart ==
    /\ probe = None
    /\ processed_interactions' = load_processed_interactions(file)
    /\ probe' = Some([loaded |-> TRUE])
    /\ UNCHANGED <<file, tweets_cache, now, th,
                   lastFetchAt, cleared, cyc, blacklist_keywords, daily, outfit>>

SpecLoad == InitLoad /\ [][LoadAtStart]_vars

\* the set operations of the ledger alone: any id recorded for any kind,
\* any number of times
InitLedger ==
    /\ InitAlone
    /\ file = MissingFile
    /\ processed_interactions = EmptyLedger

RecordAlone ==
    /\ \E set \in Kinds, id \in IdSamples :
          /\ processed_interactions' =
                 [processed_interactions EXCEPT ![set] = Add(@, id)]
          /\ probe' = Some([set |-> set, id |-> id,
                            before |-> processed_interactions])
    /\ UNCHANGED <<file, tweets_cache, now, th,
                   lastFetchAt, cleared, cyc, blacklist_keywords, daily, outfit>>

SpecLedger == InitLedger /\ [][RecordAlone]_vars

\* run.py alone; every call it makes returns
SpecDaily == InitLedger /\ [][NextDaily]_vars /\ WF_vars(NextDaily)

\* outfit_scheduler.py alone
SpecOutfit == InitLedger /\ [][NextOutfit]_vars

\* contains_blacklisted_keywords alone, on every configuration and text
EnvStrings == SeqsUpTo(Chars, MaxEnvLen)
Texts == SeqsUpTo({"s", "S", "p"}, MaxTextLen)

InitBlacklist ==
    /\ file = MissingFile
    /\ processed_interactions = load_processed_interactions(file)
    /\ tweets_cache = [data |-> None, timestamp |-> None,
                       cache_duration_minutes |-> tweets_cache_minutes]
    /\ now = 0
    /\ th = [p \in Threads |-> Idle]
    /\ lastFetchAt = None
    /\ cleared = FALSE
    /\ cyc = [p \in Threads |-> NoCycle]
    /\ blacklist_keywords \in {parse_blacklist_keywords(e) : e \in EnvStrings}
    /\ probe = None
    /\ daily = DailyStart
    /\ outfit = OutfitStart

Probe ==
    /\ \E text \in Texts :
          probe' = Some([text |-> text,
                         result |-> contains_blacklisted_keywords(
                                        blacklist_keywords, text)])
    /\ UNCHANGED <<processed_interactions, file, tweets_cache, now, th,
                   lastFetchAt, cleared, cyc, blacklist_keywords, daily, outfit>>

SpecBlacklist == InitBlacklist /\ [][Probe]_vars

\* generate_reply_message and generate_repost_comment alone, on every
\* completion
Completions == {None} \cup {Some(c) : c \in SeqsUpTo({"a", "b", " "}, MaxReplyLen)}

Generate ==
    /\ \E task \in {"replies", "reposts"}, c \in Completions, f \in Fallbacks :
          probe' = Some([task |-> task, completion |-> c, pick |-> f,
                         text |-> generate(task, c, f)])
    /\ UNCHANGED <<processed_interactions, file, tweets_cache, now, th,
                   lastFetchAt, cleared, cyc, blacklist_keywords, daily, outfit>>

SpecGenerate == InitLedger /\ [][Generate]_vars

----------------------------------------------------------------------------
(* The claims *)

Running(w) == th[w].pc # "idle"

Publishes(w) == th[w].pc = "publish" /\ th'[w].pc = "record"

Records(w) == th[w].pc = "record" /\ th'[w].pc # "record"

Saves(w) == th[w].pc = "save" /\ th'[w].pc # "save"

Unsaved ==
    UNION {processed_interactions[set].ids \
              load_processed_interactions(file)[set].ids : set \in Kinds}

\* C1: once an id is in replied_to / commented_reposts, no create_tweet is
\* issued in reply to it any more, however the invocations interleave
NoPublishForRecordedId ==
    [][\A w \in Workers :
          Publishes(w) =>
             ~In(Val(th[w].cand).id,
                 processed_interactions[SetOf(th[w].task)])]_vars

\* C2: at most one invocation of process_replies and at most one of
\* process_reposts is running at any time
OneInvocationPerKind ==
    \A task \in {"replies", "reposts"} :
       Cardinality({w \in Workers : Running(w) /\ th[w].task = task}) <= 1

\* a thread in the middle of an access to the cache (data stored, timestamp
\* not yet) or to the ledger (membership read, id not yet added; slice
\* taken, set not yet replaced)
InAccess(p) ==
    th[p].pc \in {"cache_ts", "publish", "record",
                  "trim_replied_to", "trim_commented_reposts"}

\* C3: the accesses to the ledger and to the cache exclude each other: no
\* two threads are in the middle of one at the same time
AccessesExcludeEachOther ==
    Cardinality({p \in Threads : InAccess(p)}) <= 1

\* C4: the file lags the ledger in memory by at most one acted id
AtMostOneUnsaved == Cardinality(Unsaved) <= 1

\* C5: an id enters a set of the ledger only in the step after create_tweet
\* returned a response for that very id, and a failed create_tweet leaves
\* both sets unchanged
AddOnlyAfterSuccess ==
    [][/\ processed_interactions' # processed_interactions =>
             \E w \in Workers :
                /\ Records(w)
                /\ th[w].response # None
                /\ Val(th[w].response).in_reply_to_tweet_id = Val(th[w].cand).id
                /\ processed_interactions' =
                      [processed_interactions EXCEPT ![SetOf(th[w].task)] =
                          Add(@, Val(th[w].cand).id)]
       /\ \A w \in Workers :
             th[w].pc = "publish" /\ th'[w].pc \notin {"publish", "record"} =>
                processed_interactions' = processed_interactions]_vars

AddedAfterSuccess ==
    \E w \in Workers :
       /\ th[w].pc \in {"filter", "loop", "save"}
       /\ th[w].count >= 1
       /\ processed_interactions[SetOf(th[w].task)].ids # {}

InLoops(w) == th[w].pc \in {"loop", "filter", "publish", "record", "save"}

\* C6: the counter of an invocation never exceeds the maximum of its kind,
\* and every invocation enters its loop with the counter at zero
CountWithinQuota ==
    /\ [](\A w \in Workers : InLoops(w) => th[w].count <= MaxOf(th[w].task))
    /\ [][\A w \in Workers :
             ~InLoops(w) /\ InLoops(w)' => th'[w].count = 0]_vars

QuotaFilledAfterReset ==
    \E w \in Workers :
       /\ th[w].task = "reposts" /\ th[w].cycle
       /\ th[w].pc = "save"
       /\ th[w].count = max_repost_comments_per_check
       /\ Cardinality(processed_interactions.replied_to.ids) >= max_replies_per_check

\* what C7 says of an invocation that is about to save, all but the file
ActedOnMin(w) ==
    LET acted == cyc[w].acted
        N == Cardinality(acted) + cyc[w].skipped
    IN  /\ Cardinality(acted) = Min(N, MaxOf(th[w].task))
        /\ th[w].count = Cardinality(acted)
        /\ acted \subseteq processed_interactions[SetOf(th[w].task)].ids

NoPublishForIneligible ==
    [][\A w \in Workers :
          /\ Publishes(w) =>
                Eligible(Val(th[w].cand), processed_interactions, th[w].task)
          /\ th[w].pc = "filter" /\ th'[w].pc # "publish" =>
                /\ th'[w].count = th[w].count
                /\ processed_interactions' = processed_interactions]_vars

\* C9: contains_blacklisted_keywords answers whether some configured
\* keyword occurs in the text, letter case ignored on both sides
MatchesIgnoringCase ==
    probe # None =>
       (Val(probe).result <=>
           \E i \in 1..Len(blacklist_keywords) :
              Infix(Lower(blacklist_keywords[i]), Lower(Val(probe).text)))

\* C10: a call of get_recent_bot_tweets that starts within the time to live
\* of an earlier call that asked the platform, nothing having refilled the
\* cache in between, does not ask the platform again
OneFetchPerTimeToLive ==
    [][\A w \in Workers :
          th[w].pc = "start" /\ th'[w].pc = "fetch" =>
             \/ lastFetchAt = None
             \/ now - Val(lastFetchAt) >= tweets_cache_minutes]_vars

FetchFails(w) ==
    th[w].pc = "fetch" /\ th'[w].pc \notin {"fetch", "no_data", "cache_data"}

\* C12: a call that finds the snapshot older than the time to live goes to
\* the fetch; when the fetch fails while a snapshot is stored, the cache is
\* left as it is and the call returns the snapshot's posts of the last
\* RecentHours hours, counted from the start of the call
StaleFallback ==
    [][\A w \in SeqWorkers :
          /\ ( /\ CallBegins(w)
               /\ tweets_cache.data # None /\ tweets_cache.timestamp # None
               /\ now - Val(tweets_cache.timestamp) >= tweets_cache_minutes )
             => th'[w].pc = "fetch"
          /\ ( /\ FetchFails(w)
               /\ tweets_cache.data # None /\ tweets_cache.timestamp # None )
             => /\ tweets_cache' = tweets_cache
                /\ th'[w].pc = "loop"
                /\ th'[w].recent =
                      Len(RecentOf(Val(tweets_cache.data), th[w].current_time,
                                   RecentHours))]_vars

ServedStale ==
    \E w \in SeqWorkers :
       /\ th[w].pc = "loop"
       /\ th[w].recent >= 1
       /\ tweets_cache.timestamp # None
       /\ now - Val(tweets_cache.timestamp) >= tweets_cache_minutes
       /\ lastFetchAt = Some(now)

\* C13: when a call returns from a successful fetch, empty or not, the
\* cache holds the fetched posts and the time of that fetch; a failed fetch
\* changes neither
FetchReplacesSnapshot ==
    [][\A w \in Workers :
          /\ ( /\ th[w].pc \in {"no_data", "cache_ts"}
               /\ th'[w].pc \notin {"no_data", "cache_ts"} )
             => /\ tweets_cache'.data = Some(th[w].fetched)
                /\ tweets_cache'.timestamp = Some(th[w].current_time)
          /\ FetchFails(w) => tweets_cache' = tweets_cache]_vars

\* C14: in every state the cache is entirely unset, or holds the data of
\* one fetch with the timestamp of that fetch: never data whose timestamp
\* is still to be stored
SnapshotWhole ==
    \/ tweets_cache.data = None /\ tweets_cache.timestamp = None
    \/ /\ tweets_cache.data # None /\ tweets_cache.timestamp # None
       /\ \A w \in Workers : th[w].pc # "cache_ts"

\* C15: the ledger loaded from the file that a successful save wrote
\* answers every membership question as the saved ledger did, for both
\* kinds, and holds nothing the saved ledger did not hold
RoundTrip ==
    probe # None /\ Val(probe).loaded =>
       \A set \in Kinds :
          LET S == Val(probe).saved[set]
              L == processed_interactions[set]
          IN  /\ \A id \in S.ids \cup L.ids : In(id, L) <=> In(id, S)
              /\ Size(L) = Size(S)

LoadedBack ==
    /\ probe # None /\ Val(probe).loaded
    /\ {10, MaxId} \subseteq processed_interactions.replied_to.ids
    /\ processed_interactions.commented_reposts.ids = {0, 9}
    /\ file.content.seq[1].seq[1].seq = Digits(MaxId)

\* C16: load_processed_interactions on a store that is missing, unreadable,
\* not JSON, or JSON of another shape than the one save writes, returns the
\* ledger of two empty sets
LoadOfBadStoreIsEmpty ==
    probe # None /\ ~WellFormed(file) => processed_interactions = EmptyLedger

\* C17: after an id is recorded for a kind the membership test for it is
\* true, and stays true whatever is recorded later; recording an id that is
\* already in the set leaves the ledger as it was
RecordIdempotent ==
    /\ [](probe # None =>
            LET r == Val(probe)
            IN  /\ In(r.id, processed_interactions[r.set])
                /\ In(r.id, r.before[r.set]) =>
                      processed_interactions = r.before)
    /\ [][\A set \in Kinds, id \in IdSamples :
             In(id, processed_interactions[set]) =>
                In(id, processed_interactions'[set])]_vars

RecordedTwice ==
    /\ probe # None
    /\ In(Val(probe).id, Val(probe).before[Val(probe).set])
    /\ Size(processed_interactions[Val(probe).set]) >= 2

NextOf(set) ==
    IF set = "replied_to" THEN "cleanup_commented_reposts" ELSE "cleanup_save"

OtherOf(set) == IF set = "replied_to" THEN "commented_reposts" ELSE "replied_to"

Checks(p, set) == th[p].pc = "cleanup_" \o set /\ th'[p].pc # th[p].pc

Trims(p, set) == th[p].pc = "trim_" \o set /\ th'[p].pc # th[p].pc

\* C18: cleanup_old_interactions takes, of a set of more than TrimMax ids,
\* TrimKeep ids that are all in the set, and makes them the set; it leaves
\* a set of at most TrimMax ids as it is; what it does to one set does not
\* touch the other
TrimKeepsHalf ==
    [][\A p \in {0, CycleThread}, set \in Kinds :
          /\ Checks(p, set) =>
                /\ processed_interactions' = processed_interactions
                /\ IF Size(processed_interactions[set]) > TrimMax
                   THEN /\ th'[p].pc = "trim_" \o set
                        /\ Size(Val(th'[p].keep)) = TrimKeep
                        /\ Val(th'[p].keep).ids \subseteq
                              processed_interactions[set].ids
                        /\ Val(th'[p].keep).old <= processed_interactions[set].old
                   ELSE th'[p].pc = NextOf(set)
          /\ Trims(p, set) =>
                /\ processed_interactions'[set] = Val(th[p].keep)
                /\ Size(processed_interactions'[set]) = TrimKeep
                /\ processed_interactions'[OtherOf(set)] =
                      processed_interactions[OtherOf(set)]
                /\ th'[p].pc = NextOf(set)]_vars

TrimmedOneOfTwo ==
    /\ th[CycleThread].pc = "cleanup_save"
    /\ Size(processed_interactions.replied_to) = TrimKeep
    /\ Size(processed_interactions.commented_reposts) \in 1..TrimMax
    /\ processed_interactions.commented_reposts.old = 0

\* C19: the ids a trim keeps are the most recently added ones: if any id
\* loaded from the file at start is kept, every id added since is kept
TrimKeepsNewest ==
    [][\A p \in {0, CycleThread}, set \in Kinds :
          Checks(p, set) /\ th'[p].pc = "trim_" \o set =>
             ( Val(th'[p].keep).old > 0 =>
                  processed_interactions[set].ids \subseteq Val(th'[p].keep).ids )]_vars

\* C20: a create_tweet (or a generation) that fails takes the invocation to
\* the next candidate of the same search, or to the next tweet when that
\* was the last candidate; a search that raises or finds nothing takes it
\* to the next tweet; neither ends the invocation while tweets remain
FailureIsLocal ==
    [][\A w \in Workers :
          /\ th[w].pc = "publish" /\ th'[w].pc \notin {"publish", "record"} =>
                /\ th'[w].count = th[w].count
                /\ th'[w].recent = th[w].recent
                /\ IF th[w].results > 1
                   THEN th'[w].pc = "filter" /\ th'[w].results = th[w].results - 1
                   ELSE th'[w].pc = "loop"
          /\ th[w].pc = "loop" /\ th[w].recent > 0
                /\ th[w].count < MaxOf(th[w].task) /\ th'[w] # th[w] =>
                /\ th'[w].pc \in {"loop", "filter"}
                /\ th'[w].recent = th[w].recent - 1
                /\ th'[w].count = th[w].count]_vars

WentOnAfterFailures ==
    \E w \in Workers :
       /\ th[w].pc = "record"
       /\ cyc[w].failed >= 1
       /\ cyc[w].nohits >= 1

Ends(w) ==
    /\ th[w].pc \notin {"idle", "start"} /\ th[w].task \in {"replies", "reposts"}
    /\ \/ th'[w].pc \in {"idle", "start"}
       \/ th'[w].task = "cleanup"

\* C21: an invocation that has passed the window check ends only by way of
\* save_processed_interactions, whatever failed before
EndsBySaving ==
    [][\A w \in Workers : Ends(w) => th[w].pc = "save"]_vars

\* C22: create_tweet is not called for a candidate it was already called
\* for in an earlier search of the same invocation
OneAttemptPerCandidate ==
    [][\A w \in Workers :
          th[w].pc = "publish" /\ th'[w] # th[w]
              => Val(th[w].cand).id \notin cyc[w].tried]_vars

Proceeds(w) == th[w].pc = "start" /\ th'[w].pc \in {"fetch", "loop"}

Skips(w) == th[w].pc = "start" /\ th'[w] # th[w] /\ ~Proceeds(w)

OutsideWindow(c) ==
    \/ c.hour < engagement_start_hour
    \/ c.hour > engagement_end_hour
    \/ weekend_reduced_activity /\ c.weekday >= 5 /\ c.low

\* C23: an invocation outside the window, or skipped by the weekend draw,
\* returns at once: it does not go on to the cache, a search or a publish,
\* and the ledger, the file and the cache are as they were
SkippedDoesNothing ==
    [][\A w \in {CycleThread} :
          th[w].pc = "start" /\ th'[w] # th[w] /\ OutsideWindow(Val(probe'))
              => /\ Skips(w)
                 /\ th'[w].pc \in {"idle", "start", "cleanup_replied_to"}
                 /\ th'[w].task # th[w].task
                 /\ UNCHANGED <<processed_interactions, file, tweets_cache>>]_vars

\* the replies were skipped late in the evening and the reposts are next,
\* with ids on record
SkippedLate ==
    /\ probe # None
    /\ Val(probe).hour > engagement_end_hour
    /\ th[CycleThread].pc = "start" /\ th[CycleThread].task = "reposts"
    /\ processed_interactions.replied_to.ids # {}

SaveFails(w) == Saves(w) /\ file' # FileOf(processed_interactions)

NeverEmptyText ==
    probe # None => Val(probe).text # <<>>

\* C28: inside the loops the counter of an invocation is the number of its
\* create_tweet calls that succeeded (one less between a success and the
\* `count += 1` that follows it) and never above the maximum; a failed
\* create_tweet leaves the counter as it was and the loops go on
CountIsSuccesses ==
    /\ [](\A w \in {CycleThread} :
             /\ th[w].pc \in {"loop", "filter", "publish", "save"}
                   => th[w].count = cyc[w].won
             /\ th[w].pc = "record" => th[w].count + 1 = cyc[w].won
             /\ th[w].pc \in {"loop", "filter", "publish", "record", "save"}
                   => cyc[w].won <= MaxOf(th[w].task))
    /\ [][\A w \in {CycleThread} :
             th[w].pc = "publish" /\ th'[w] # th[w] /\ ~Publishes(w)
                 => /\ th'[w].count = th[w].count
                    /\ th'[w].pc \in {"loop", "filter"}]_vars

\* an invocation filled its quota although create_tweet had failed: more
\* attempts than the maximum
MoreAttemptsThanQuota ==
    /\ th[CycleThread].pc = "save"
    /\ cyc[CycleThread].won = MaxOf(th[CycleThread].task)
    /\ th[CycleThread].count = MaxOf(th[CycleThread].task)
    /\ cyc[CycleThread].failed >= 1

\* C29: when cleanup replaces a set, every id that was added to the set
\* after cleanup read it is in the set that replaces it
NoRecordLost ==
    [][\A p \in {0, CycleThread}, set \in Kinds :
          Trims(p, set) =>
             cyc[p].during \subseteq processed_interactions'[set].ids]_vars

InFlight == {r \in RunSlots : outfit.run[r].pc \in {"prompts", "images", "post"}}

\* C26: as long as no request carried force=true, at most one generation
\* run is in flight
OneRunUnlessForced ==
    ~outfit.forced => Cardinality(InFlight) <= 1

Over == daily.pc \in {"done", "gave_up"}

\* C27: tweet_handler ends; tweet() is called at most three times, and only
\* while no attempt has posted; it ends giving up exactly when three calls
\* were made and none posted
HandlerEnds ==
    /\ [](/\ Calls <= MaxTries
          /\ daily.pc = "gave_up" => Calls = MaxTries /\ ~daily.tweet_status
          /\ daily.pc = "done" => daily.tweet_status)
    /\ [][CallsTweet => ~daily.tweet_status /\ Calls < MaxTries]_vars
    /\ <>Over

\* tweet_handler gave up after the third call
GaveUpAfterThree ==
    /\ daily.pc = "gave_up"
    /\ Calls = MaxTries

\* C30: total_runs is successful_runs plus failed_runs plus the runs in
\* flight; a run that ends adds one to exactly one of the two; is_running
\* is false whenever no run is in flight
RunsAddUp ==
    /\ [](/\ outfit.total_runs =
                outfit.successful_runs + outfit.failed_runs + Cardinality(InFlight)
          /\ InFlight = {} => ~outfit.is_running)
    /\ [][\A r \in RunSlots :
             r \in InFlight /\ outfit'.run[r].pc = "free"
                 => /\ outfit'.successful_runs + outfit'.failed_runs =
                          outfit.successful_runs + outfit.failed_runs + 1
                    /\ outfit'.successful_runs >= outfit.successful_runs
                    /\ outfit'.failed_runs >= outfit.failed_runs
                    /\ outfit'.total_runs = outfit.total_runs]_vars

\* two runs were in flight, one has ended, the other has not
OneOfTwoEnded ==
    /\ Cardinality(InFlight) = 1
    /\ outfit.total_runs >= 2
    /\ outfit.successful_runs + outfit.failed_runs >= 1
    /\ ~outfit.is_running

============================================================================
